---- MODULE Spec2Model ----
(***************************************************************************)
(* Model of oni-plugin-typescript/src/index.ts: the LightweightLanguage-   *)
(* Client dispatch tables, the plugin's activation, the buffer mirror      *)
(* (lastBuffer) and the synchronisation of editor buffers with the         *)
(* TypeScript server host, getCompletions, the highlights derived from     *)
(* the navigation tree and the diagnostics published for the host.         *)
(*                                                                         *)
(* JavaScript values are modelled as follows: a string is a TLA+ string,   *)
(* a URI is a sequence of one-character strings (split and                 *)
(* decodeURIComponent work on characters), an object is a record whose     *)
(* DOMAIN holds the fields that are present, an array is a sequence.       *)
(***************************************************************************)
EXTENDS Integers, Sequences, FiniteSets, TLC

VARIABLES
    subscriptions,        \* _subscriptions: own properties, name -> sink
    requestHandler,       \* _requestHandler: own properties, name -> handler
    notificationHandler,  \* _notificationHandler: own properties, name -> handler
    lastBuffer,           \* the buffer mirror: one array of lines
    pendingUpdate,        \* the throttled updateFile: <<>> or <<latest arguments>>
    pc,                   \* "constructed" (index.ts:277-280 done) or "active"
    last,                 \* history: what the most recent operation did
    regLog,               \* history: subscribe/handleRequest/handleNotification calls
    opened,               \* history: paths host.openFile has been called for
    burst,                \* history: document events of the current throttle window
    inflight,             \* host requests whose response has not arrived yet
    published,            \* what Oni.setHighlights left published, per path
    issued                \* history: the paths of the host requests issued, in order

vars == <<subscriptions, requestHandler, notificationHandler, lastBuffer,
          pendingUpdate, pc, last, regLog, opened, burst, inflight, published,
          issued>>

----------------------------------------------------------------------------
(* Bounds of the model. *)

MaxRegs == 2      \* registrations made by callers besides activate's own
MaxBurst == 3     \* document events handled within one throttle window
MaxLineNo == 3    \* largest line number of an incremental update

----------------------------------------------------------------------------
(* JavaScript values. *)

Undefined == "undefined"

\* A property name is looked up on an object literal { }: an own property if
\* one was assigned, otherwise the member inherited from Object.prototype.
ObjectPrototype(name) ==
    CASE name = "constructor" -> "Object"
      [] name = "hasOwnProperty" -> "Object.prototype.hasOwnProperty"
      [] OTHER -> Undefined

PropertyLookup(table, name) ==
    IF table[name] # Undefined THEN table[name] ELSE ObjectPrototype(name)

Names == {"textDocument/didOpen", "textDocument/didChange", "textDocument/hover",
          "window/logMessage", "constructor", "hasOwnProperty"}

RequestHandlers == {"getQuickInfo", "rh1", "rh2"}
NotificationHandlers == {"protocolOpenFile", "protocolChangeFile", "nh1"}
Builtins == {"Object", "Object.prototype.hasOwnProperty"}
Sinks == {"s1", "s2"}
NotifyPayloads == {"Hello world", "p"}

----------------------------------------------------------------------------
(* File URIs. *)

ProcessPlatform == "linux"

getFilePrefix ==
    IF ProcessPlatform = "win32"
    THEN <<"f", "i", "l", "e", ":", "/", "/", "/">>
    ELSE <<"f", "i", "l", "e", ":", "/", "/">>

StartsWith(s, sep) == Len(s) >= Len(sep) /\ SubSeq(s, 1, Len(sep)) = sep

\* String.prototype.split(sep) for a non-empty separator: the pieces, in order.
RECURSIVE SplitFrom(_, _, _)
SplitFrom(s, sep, piece) ==
    IF s = <<>> THEN <<piece>>
    ELSE IF StartsWith(s, sep)
         THEN <<piece>> \o SplitFrom(SubSeq(s, Len(sep) + 1, Len(s)), sep, <<>>)
         ELSE SplitFrom(Tail(s), sep, Append(piece, Head(s)))

Split(s, sep) == SplitFrom(s, sep, <<>>)

HexDigits == {"0", "1", "2", "3", "4", "5", "6", "7", "8", "9",
              "a", "b", "c", "d", "e", "f", "A", "B", "C", "D", "E", "F"}

\* The escapes the model's URIs use, with the character each stands for.
PercentDecoded(h1, h2) ==
    CASE h1 = "2" /\ h2 = "0" -> " "
      [] h1 = "2" /\ h2 = "5" -> "%"
      [] OTHER -> "?"

\* decodeURIComponent on characters: [ok |-> TRUE, value |-> string], or
\* ok = FALSE when an escape is malformed (URIError).
RECURSIVE DecodeChars(_)
DecodeChars(s) ==
    IF s = <<>> THEN [ok |-> TRUE, value |-> ""]
    ELSE IF Head(s) = "%"
         THEN IF Len(s) >= 3 /\ s[2] \in HexDigits /\ s[3] \in HexDigits
              THEN LET rest == DecodeChars(SubSeq(s, 4, Len(s)))
                   IN  [ok |-> rest.ok,
                        value |-> IF rest.ok
                                  THEN PercentDecoded(s[2], s[3]) \o rest.value
                                  ELSE rest.value]
              ELSE [ok |-> FALSE, value |-> "URIError"]
         ELSE LET rest == DecodeChars(Tail(s))
              IN  [ok |-> rest.ok,
                   value |-> IF rest.ok THEN Head(s) \o rest.value ELSE rest.value]

\* decodeURIComponent(x): undefined is converted to the string "undefined".
decodeURIComponent(x) ==
    IF x = <<Undefined>> THEN [ok |-> TRUE, value |-> "undefined"]
    ELSE DecodeChars(x)

\* uri.split(getFilePrefix())[1]: the second piece, undefined if there is none.
unwrapFileUriPath(uri) ==
    LET pieces == Split(uri, getFilePrefix)
    IN  decodeURIComponent(IF Len(pieces) >= 2 THEN pieces[2] ELSE <<Undefined>>)

UriA == <<"f", "i", "l", "e", ":", "/", "/", "/", "a">>
UriB == <<"f", "i", "l", "e", ":", "/", "/", "/", "b">>
UriBad == <<"f", "i", "l", "e", ":", "/", "/", "/", "%">>
UriEsc == <<"f", "i", "l", "e", ":", "/", "/", "/", "a", "%", "2", "0", "b">>

Paths == {"/a", "/b"}

----------------------------------------------------------------------------
(* Calls on host (TypeScriptServerHost), outcomes and effects. *)

\* One call on host. site is the call site: "direct" for a call made by the
\* handler itself, "throttled" for the call made by the throttled updateFile.
HostCall(op, path, text, line, offset, site) ==
    [op |-> op, path |-> path, text |-> text, line |-> line, offset |-> offset,
     site |-> site]

\* How a call ends: kind is "void", "promise", "rejected", "value" or "throw".
Outcome(kind, by, reason) == [kind |-> kind, by |-> by, reason |-> reason]

\* What running a handler does: how it ends, the host calls it makes, the
\* mirror and the throttle's pending arguments it leaves, and the document
\* event it handled (<<>> if none).
Effect(outcome, calls, buffer, pending, doc) ==
    [outcome |-> outcome, calls |-> calls, buffer |-> buffer, pending |-> pending,
     doc |-> doc]

DocEvent(ev, path, text) == [ev |-> ev, path |-> path, text |-> text]

Throws(by, error) ==
    Effect(Outcome("throw", by, error), <<>>, lastBuffer, pendingUpdate, <<>>)

Has(obj, field) == field \in DOMAIN obj

\* Payloads of requests and notifications.
OpenPayload(uri) == [textDocument |-> [uri |-> uri]]
ChangePayload(uri, changes) ==
    [textDocument |-> [uri |-> uri], contentChanges |-> changes]
HoverPayload(uri, line, character) ==
    [textDocument |-> [uri |-> uri],
     position |-> [line |-> line, character |-> character]]
PartialPayload == [version |-> 1]

WholeChange(text) == [text |-> text]
RangedChange(text) == [text |-> text, range |-> "r"]

----------------------------------------------------------------------------
(* The handlers activate registers. *)

protocolOpenFile(message, payload) ==
    IF ~Has(payload, "textDocument") THEN Throws("protocolOpenFile", "TypeError")
    ELSE LET filePath == unwrapFileUriPath(payload.textDocument.uri)
         IN  IF ~filePath.ok THEN Throws("protocolOpenFile", "URIError")
             ELSE Effect(Outcome("void", "protocolOpenFile", ""),
                         <<HostCall("openFile", filePath.value, "", 0, 0, "direct")>>,
                         lastBuffer, pendingUpdate,
                         <<DocEvent("didOpen", filePath.value, "")>>)

\* didChange routed through the throttled updateFile instead of host.updateFile.
protocolChangeFile_Throttled(message, payload) ==
    IF ~Has(payload, "textDocument") THEN Throws("protocolChangeFile", "TypeError")
    ELSE LET filePath == unwrapFileUriPath(payload.textDocument.uri)
         IN  IF ~filePath.ok THEN Throws("protocolChangeFile", "URIError")
             ELSE IF ~Has(payload, "contentChanges") \/ payload.contentChanges = <<>>
                  THEN Throws("protocolChangeFile", "TypeError")
                  ELSE LET change == payload.contentChanges[1]
                       IN  IF ~Has(change, "range")
                           THEN Effect(Outcome("void", "protocolChangeFile", ""),
                                       <<>>, lastBuffer,
                                       <<[path |-> filePath.value,
                                          text |-> change.text]>>,
                                       <<DocEvent("didChange", filePath.value,
                                                  change.text)>>)
                           ELSE Effect(Outcome("void", "protocolChangeFile", ""),
                                       <<>>, lastBuffer, pendingUpdate, <<>>)

\* didChange that also stores the new text in the mirror.
protocolChangeFile_SetsMirror(message, payload) ==
    IF ~Has(payload, "textDocument") THEN Throws("protocolChangeFile", "TypeError")
    ELSE LET filePath == unwrapFileUriPath(payload.textDocument.uri)
         IN  IF ~filePath.ok THEN Throws("protocolChangeFile", "URIError")
             ELSE IF ~Has(payload, "contentChanges") \/ payload.contentChanges = <<>>
                  THEN Throws("protocolChangeFile", "TypeError")
                  ELSE LET change == payload.contentChanges[1]
                       IN  IF ~Has(change, "range")
                           THEN Effect(Outcome("void", "protocolChangeFile", ""),
                                       <<HostCall("updateFile", filePath.value,
                                                  change.text, 0, 0, "direct")>>,
                                       <<change.text>>, pendingUpdate,
                                       <<DocEvent("didChange", filePath.value,
                                                  change.text)>>)
                           ELSE Effect(Outcome("void", "protocolChangeFile", ""),
                                       <<>>, lastBuffer, pendingUpdate, <<>>)

\* didChange that honours the last entry of contentChanges instead of the first.
protocolChangeFile_LastChange(message, payload) ==
    IF ~Has(payload, "textDocument") THEN Throws("protocolChangeFile", "TypeError")
    ELSE LET filePath == unwrapFileUriPath(payload.textDocument.uri)
         IN  IF ~filePath.ok THEN Throws("protocolChangeFile", "URIError")
             ELSE IF ~Has(payload, "contentChanges") \/ payload.contentChanges = <<>>
                  THEN Throws("protocolChangeFile", "TypeError")
                  ELSE LET change == payload.contentChanges[Len(payload.contentChanges)]
                       IN  IF ~Has(change, "range")
                           THEN Effect(Outcome("void", "protocolChangeFile", ""),
                                       <<HostCall("updateFile", filePath.value,
                                                  change.text, 0, 0, "direct")>>,
                                       lastBuffer, pendingUpdate,
                                       <<DocEvent("didChange", filePath.value,
                                                  change.text)>>)
                           ELSE Effect(Outcome("void", "protocolChangeFile", ""),
                                       <<>>, lastBuffer, pendingUpdate, <<>>)

protocolChangeFile(message, payload) ==
    IF ~Has(payload, "textDocument") THEN Throws("protocolChangeFile", "TypeError")
    ELSE LET filePath == unwrapFileUriPath(payload.textDocument.uri)
         IN  IF ~filePath.ok THEN Throws("protocolChangeFile", "URIError")
             ELSE IF ~Has(payload, "contentChanges") \/ payload.contentChanges = <<>>
                  THEN Throws("protocolChangeFile", "TypeError")
                  ELSE LET change == payload.contentChanges[1]
                       IN  IF ~Has(change, "range")
                           THEN Effect(Outcome("void", "protocolChangeFile", ""),
                                       <<HostCall("updateFile", filePath.value,
                                                  change.text, 0, 0, "direct")>>,
                                       lastBuffer, pendingUpdate,
                                       <<DocEvent("didChange", filePath.value,
                                                  change.text)>>)
                           ELSE Effect(Outcome("void", "protocolChangeFile", ""),
                                       <<>>, lastBuffer, pendingUpdate, <<>>)

\* An async function: an exception before the first await rejects the promise
\* it returns; host.getQuickInfo is called before the function suspends.
getQuickInfo(protocolName, payload) ==
    LET rejects(error) ==
            Effect(Outcome("rejected", "getQuickInfo", error), <<>>, lastBuffer,
                   pendingUpdate, <<>>)
    IN  IF ~Has(payload, "textDocument") THEN rejects("TypeError")
        ELSE LET filePath == unwrapFileUriPath(payload.textDocument.uri)
             IN  IF ~filePath.ok THEN rejects("URIError")
                 ELSE IF ~Has(payload, "position") THEN rejects("TypeError")
                 ELSE Effect(Outcome("promise", "getQuickInfo", ""),
                             <<HostCall("getQuickInfo", filePath.value, "",
                                        payload.position.line + 1,
                                        payload.position.character + 1, "direct")>>,
                             lastBuffer, pendingUpdate, <<>>)

\* A handler a caller of handleRequest / handleNotification supplies: it
\* touches nothing of the plugin and its result is its own.
CallerHandler(h, name, payload) ==
    Effect(Outcome(IF h \in RequestHandlers THEN "promise" ELSE "void", h, ""),
           <<>>, lastBuffer, pendingUpdate, <<>>)

\* The members inherited from Object.prototype, called as plain functions
\* (this is undefined): Object(name, payload) returns a wrapper object,
\* hasOwnProperty throws a TypeError.
BuiltinCall(fn, name, payload) ==
    IF fn = "Object"
    THEN Effect(Outcome("value", "Object", ""), <<>>, lastBuffer, pendingUpdate, <<>>)
    ELSE Throws(fn, "TypeError")

\* handler(name, payload), for whatever the table lookup returned.
Call(handler, name, payload) ==
    CASE handler = "protocolOpenFile" -> protocolOpenFile(name, payload)
      [] handler = "protocolChangeFile" -> protocolChangeFile(name, payload)
      [] handler = "getQuickInfo" -> getQuickInfo(name, payload)
      [] handler \in Builtins -> BuiltinCall(handler, name, payload)
      [] OTHER -> CallerHandler(handler, name, payload)

Invocation(handler, name, payload) ==
    [handler |-> handler, name |-> name, args |-> payload]

----------------------------------------------------------------------------
(* History. *)

Last(op, name, args, outcome, invoked, calls, dispatched) ==
    [op |-> op, name |-> name, args |-> args, outcome |-> outcome,
     invoked |-> invoked, calls |-> calls, dispatched |-> dispatched]

NoOutcome == Outcome("void", "none", "")

Registration(kind, name, target, by) ==
    [kind |-> kind, name |-> name, target |-> target, by |-> by]

CallerRegistrations == Len(SelectSeq(regLog, LAMBDA r : r.by = "caller"))

OpenedBy(calls) == {calls[i].path : i \in {j \in DOMAIN calls : calls[j].op = "openFile"}}

----------------------------------------------------------------------------
(* LightweightLanguageClient. *)

NoTable == [n \in Names |-> Undefined]

\* Nothing published yet by Oni.setHighlights for a path.
NoHighlights == [from |-> 0, entries |-> <<>>]

Init ==
    /\ subscriptions = NoTable
    /\ requestHandler = NoTable
    /\ notificationHandler = NoTable
    /\ lastBuffer = <<>>
    /\ pendingUpdate = <<>>
    /\ pc = "constructed"
    /\ last = Last("new", "", "", NoOutcome, <<>>, <<>>, <<>>)
    /\ regLog = <<>>
    /\ opened = {}
    /\ burst = <<>>
    /\ inflight = <<>>
    /\ published = [p \in Paths |-> NoHighlights]
    /\ issued = <<>>

\* this._subscriptions[notificationName] = evt
subscribe(table, notificationName, evt) == [table EXCEPT ![notificationName] = evt]

\* A registration that keeps the handler already registered under the name.
handleRequest_KeepsFirst(table, requestName, handler) ==
    IF table[requestName] # Undefined THEN table
    ELSE [table EXCEPT ![requestName] = handler]

\* this._requestHandler[requestName] = handler
handleRequest(table, requestName, handler) == [table EXCEPT ![requestName] = handler]

\* this._notificationHandler[notificationName] = notificationHandler
handleNotification(table, notificationName, handler) ==
    [table EXCEPT ![notificationName] = handler]

\* sendRequest: the handler found, if any, is called and its result returned.
sendRequest(fileName, requestName, protocolArguments) ==
    LET handler == PropertyLookup(requestHandler, requestName)
    IN  IF handler # Undefined
        THEN [invoked |-> <<Invocation(handler, requestName, protocolArguments)>>,
              effect |-> Call(handler, requestName, protocolArguments)]
        ELSE [invoked |-> <<>>,
              effect |-> Effect(Outcome("rejected", "none", "Not implemented"),
                                <<>>, lastBuffer, pendingUpdate, <<>>)]

\* sendNotification: the handler found, if any, is called; nothing is returned.
sendNotification(fileName, notificationName, protocolArguments) ==
    LET notifier == PropertyLookup(notificationHandler, notificationName)
    IN  IF notifier # Undefined
        THEN LET eff == Call(notifier, notificationName, protocolArguments)
             IN  [invoked |-> <<Invocation(notifier, notificationName,
                                           protocolArguments)>>,
                  effect |-> IF eff.outcome.kind = "throw" THEN eff
                             ELSE [eff EXCEPT !.outcome = Outcome("void", eff.outcome.by, "")]]
        ELSE [invoked |-> <<>>,
              effect |-> Effect(NoOutcome, <<>>, lastBuffer, pendingUpdate, <<>>)]

\* notify: the event found, if any, has its dispatch method called. A member
\* inherited from Object.prototype has no dispatch method: a TypeError.
notify(notificationName, payload) ==
    LET notifierEvent == PropertyLookup(subscriptions, notificationName)
    IN  IF notifierEvent = Undefined
        THEN [outcome |-> NoOutcome, dispatched |-> <<>>]
        ELSE IF notifierEvent \in Builtins
        THEN [outcome |-> Outcome("throw", notifierEvent, "TypeError"),
              dispatched |-> <<>>]
        ELSE [outcome |-> Outcome("void", notifierEvent, ""),
              dispatched |-> <<[sink |-> notifierEvent, payload |-> payload]>>]

\* What a handler did becomes the state; a handler that threw did nothing.
ApplyEffect(op, name, args, invoked, eff) ==
    /\ eff.doc = <<>> \/ Len(burst) < MaxBurst
    /\ lastBuffer' = eff.buffer
    /\ pendingUpdate' = eff.pending
    /\ opened' = opened \cup OpenedBy(eff.calls)
    /\ burst' = IF eff.doc = <<>> THEN burst
                ELSE Append(burst, [ev |-> eff.doc[1].ev, path |-> eff.doc[1].path,
                                    text |-> eff.doc[1].text, calls |-> eff.calls])
    /\ last' = Last(op, name, args, eff.outcome, invoked, eff.calls, <<>>)

Subscribe(name, sink) ==
    /\ CallerRegistrations < MaxRegs
    /\ subscriptions' = subscribe(subscriptions, name, sink)
    /\ regLog' = Append(regLog, Registration("subscribe", name, sink, "caller"))
    /\ last' = Last("subscribe", name, sink, NoOutcome, <<>>, <<>>, <<>>)
    /\ UNCHANGED <<requestHandler, notificationHandler, lastBuffer, pendingUpdate,
                   pc, opened, burst,
                   inflight, published, issued>>

HandleRequest(name, handler) ==
    /\ CallerRegistrations < MaxRegs
    /\ requestHandler' = handleRequest(requestHandler, name, handler)
    /\ regLog' = Append(regLog, Registration("request", name, handler, "caller"))
    /\ last' = Last("handleRequest", name, handler, NoOutcome, <<>>, <<>>, <<>>)
    /\ UNCHANGED <<subscriptions, notificationHandler, lastBuffer, pendingUpdate,
                   pc, opened, burst,
                   inflight, published, issued>>

HandleNotification(name, handler) ==
    /\ CallerRegistrations < MaxRegs
    /\ notificationHandler' = handleNotification(notificationHandler, name, handler)
    /\ regLog' = Append(regLog, Registration("notification", name, handler, "caller"))
    /\ last' = Last("handleNotification", name, handler, NoOutcome, <<>>, <<>>, <<>>)
    /\ UNCHANGED <<subscriptions, requestHandler, lastBuffer, pendingUpdate,
                   pc, opened, burst,
                   inflight, published, issued>>

SendRequest(fileName, name, payload) ==
    /\ LET r == sendRequest(fileName, name, payload)
       IN  ApplyEffect("sendRequest", name, payload, r.invoked, r.effect)
    /\ UNCHANGED <<subscriptions, requestHandler, notificationHandler, pc, regLog,
                   inflight, published, issued>>

SendNotification(fileName, name, payload) ==
    /\ LET r == sendNotification(fileName, name, payload)
       IN  ApplyEffect("sendNotification", name, payload, r.invoked, r.effect)
    /\ UNCHANGED <<subscriptions, requestHandler, notificationHandler, pc, regLog,
                   inflight, published, issued>>

Notify(name, payload) ==
    /\ LET r == notify(name, payload)
       IN  last' = Last("notify", name, payload, r.outcome, <<>>, <<>>, r.dispatched)
    /\ UNCHANGED <<subscriptions, requestHandler, notificationHandler, lastBuffer,
                   pendingUpdate, pc, regLog, opened, burst,
                   inflight, published, issued>>

\* activate, from the notify of index.ts:282 on: the start-up message, then
\* the three registrations; the editor's events are subscribed to.
Activate ==
    /\ pc = "constructed"
    /\ pc' = "active"
    /\ LET r == notify("window/logMessage", "Hello world")
       IN  last' = Last("activate", "window/logMessage", "Hello world", r.outcome,
                        <<>>, <<>>, r.dispatched)
    /\ notificationHandler' =
           handleNotification(
               handleNotification(notificationHandler, "textDocument/didOpen",
                                  "protocolOpenFile"),
               "textDocument/didChange", "protocolChangeFile")
    /\ requestHandler' = handleRequest(requestHandler, "textDocument/hover",
                                       "getQuickInfo")
    /\ regLog' = regLog \o
           <<Registration("notification", "textDocument/didOpen",
                          "protocolOpenFile", "activate"),
             Registration("notification", "textDocument/didChange",
                          "protocolChangeFile", "activate"),
             Registration("request", "textDocument/hover", "getQuickInfo",
                          "activate")>>
    /\ UNCHANGED <<subscriptions, lastBuffer, pendingUpdate, opened, burst,
                   inflight, published, issued>>

----------------------------------------------------------------------------
(* The buffer mirror and the editor's buffer events. *)

lastOpenFile == "null"      \* const lastOpenFile = null: never assigned again

EOL == "\n"                 \* os.EOL

\* Array.prototype.join: an empty slot or undefined joins as the empty string.
RECURSIVE Join(_, _)
Join(lines, sep) ==
    IF lines = <<>> THEN ""
    ELSE LET first == IF Head(lines) = Undefined THEN "" ELSE Head(lines)
         IN  IF Len(lines) = 1 THEN first
             ELSE first \o sep \o Join(Tail(lines), sep)

\* array[index] = value for a zero-based index >= 0: an index past the end
\* lengthens the array, the slots in between stay empty (read as undefined).
ArraySet(array, index, value) ==
    [i \in 1..(IF index + 1 > Len(array) THEN index + 1 ELSE Len(array)) |->
        IF i = index + 1 THEN value
        ELSE IF i <= Len(array) THEN array[i] ELSE Undefined]

\* Oni.helpers.throttle(fn, 50), trailing edge: a call within the window
\* replaces the arguments waiting; fn runs on them once, when the window ends.
ThrottleCall(pending, args) == <<args>>

ThrottleFire(pending) == pending

\* The function handed to throttle: host.updateFile(bufferFullPath, stringContents).
updateFileCallback(bufferFullPath, stringContents) ==
    <<HostCall("updateFile", bufferFullPath, stringContents, 0, 0, "throttled")>>

\* updateFile(path, contents): the throttled function.
updateFile(bufferFullPath, stringContents) ==
    ThrottleCall(pendingUpdate, [path |-> bufferFullPath, text |-> stringContents])

BufferUpdateArgs(path, lines) ==
    [eventContext |-> [bufferFullPath |-> path], bufferLines |-> lines]

IncrementalArgs(path, lineNumber, line) ==
    [eventContext |-> [bufferFullPath |-> path], lineNumber |-> lineNumber,
     bufferLine |-> line]

\* buffer-update that pushes every event to the host at once, unthrottled.
OnBufferUpdate_Unthrottled(args) ==
    LET bufferFullPath == args.eventContext.bufferFullPath
    IN  IF bufferFullPath = ""
        THEN Effect(NoOutcome, <<>>, lastBuffer, pendingUpdate, <<>>)
        ELSE Effect(Outcome("void", "buffer-update", ""),
               <<HostCall("openFile", bufferFullPath, "", 0, 0, "direct"),
                 HostCall("updateFile", bufferFullPath, Join(args.bufferLines, EOL),
                          0, 0, "direct")>>,
               args.bufferLines, pendingUpdate,
               <<DocEvent("buffer-update", bufferFullPath,
                               Join(args.bufferLines, EOL))>>)

\* buffer-update that schedules the push without opening the path.
OnBufferUpdate_NoOpen(args) ==
    LET bufferFullPath == args.eventContext.bufferFullPath
    IN  IF bufferFullPath = ""
        THEN Effect(NoOutcome, <<>>, lastBuffer, pendingUpdate, <<>>)
        ELSE Effect(Outcome("void", "buffer-update", ""), <<>>, args.bufferLines,
               <<[path |-> bufferFullPath, text |-> Join(args.bufferLines, EOL)]>>,
               <<DocEvent("buffer-update", bufferFullPath,
                               Join(args.bufferLines, EOL))>>)

\* Oni.on("buffer-update", ...)
OnBufferUpdate(args) ==
    LET bufferFullPath == args.eventContext.bufferFullPath
    IN  IF bufferFullPath = ""
        THEN Effect(NoOutcome, <<>>, lastBuffer, pendingUpdate, <<>>)
        ELSE Effect(Outcome("void", "buffer-update", ""),
                    IF lastOpenFile # bufferFullPath
                    THEN <<HostCall("openFile", bufferFullPath, "", 0, 0, "direct")>>
                    ELSE <<>>,
                    args.bufferLines,
                    updateFile(bufferFullPath, Join(args.bufferLines, EOL)),
                    <<DocEvent("buffer-update", bufferFullPath,
                               Join(args.bufferLines, EOL))>>)

\* buffer-update-incremental that takes lineNumber for a zero-based index.
OnBufferUpdateIncremental_OffByOne(args) ==
    LET bufferFullPath == args.eventContext.bufferFullPath
    IN  IF bufferFullPath = ""
        THEN Effect(NoOutcome, <<>>, lastBuffer, pendingUpdate, <<>>)
        ELSE Effect(Outcome("void", "buffer-update-incremental", ""),
               <<HostCall("changeLineInFile", bufferFullPath, args.bufferLine,
                          args.lineNumber, 0, "direct")>>,
               ArraySet(lastBuffer, args.lineNumber, args.bufferLine),
               pendingUpdate,
               <<DocEvent("buffer-update-incremental", bufferFullPath,
                               args.bufferLine)>>)

\* Oni.on("buffer-update-incremental", ...)
OnBufferUpdateIncremental(args) ==
    LET bufferFullPath == args.eventContext.bufferFullPath
    IN  IF bufferFullPath = ""
        THEN Effect(NoOutcome, <<>>, lastBuffer, pendingUpdate, <<>>)
        ELSE Effect(Outcome("void", "buffer-update-incremental", ""),
                    <<HostCall("changeLineInFile", bufferFullPath, args.bufferLine,
                               args.lineNumber, 0, "direct")>>,
                    ArraySet(lastBuffer, args.lineNumber - 1, args.bufferLine),
                    pendingUpdate,
                    <<DocEvent("buffer-update-incremental", bufferFullPath,
                               args.bufferLine)>>)

BufferUpdate(args) ==
    /\ pc = "active"
    /\ ApplyEffect("buffer-update", "", args, <<>>, OnBufferUpdate(args))
    /\ UNCHANGED <<subscriptions, requestHandler, notificationHandler, pc, regLog,
                   inflight, published, issued>>

BufferUpdateIncremental(args) ==
    /\ pc = "active"
    /\ ApplyEffect("buffer-update-incremental", "", args, <<>>,
                   OnBufferUpdateIncremental(args))
    /\ UNCHANGED <<subscriptions, requestHandler, notificationHandler, pc, regLog,
                   inflight, published, issued>>

\* The throttle window ends: the arguments waiting, if any, are delivered.
\* A window in which no document event was handled changes nothing and is
\* not modelled.
ThrottleWindowElapses ==
    /\ burst # <<>>
    /\ LET fire == ThrottleFire(pendingUpdate)
           calls == IF fire = <<>> THEN <<>>
                    ELSE updateFileCallback(fire[1].path, fire[1].text)
       IN  last' = Last("window-elapsed", "", burst, NoOutcome, <<>>, calls, <<>>)
    /\ pendingUpdate' = <<>>
    /\ burst' = <<>>
    /\ UNCHANGED <<subscriptions, requestHandler, notificationHandler, lastBuffer,
                   pc, regLog, opened,
                   inflight, published, issued>>

----------------------------------------------------------------------------
(* Inputs and specifications. *)

EventPaths == Paths \cup {""}
BufferContents == {<<"x">>, <<"x", "y">>}
ChangedLines == {"z"}

RequestNames == {"textDocument/hover", "textDocument/didChange", "constructor",
                 "hasOwnProperty"}
NotificationNames == {"textDocument/didChange", "textDocument/hover", "constructor",
                      "hasOwnProperty"}
EventNames == {"window/logMessage", "constructor"}
RequestPayloads == {HoverPayload(UriA, 0, 1), PartialPayload}
NotificationPayloads ==
    {OpenPayload(UriBad), ChangePayload(UriA, <<>>),
     ChangePayload(UriA, <<RangedChange("w")>>), PartialPayload}

\* The client as its callers use it, before and after activate.
Next ==
    \/ \E s \in Sinks : Subscribe("window/logMessage", s)
    \/ \E n \in {"textDocument/hover", "constructor"}, h \in {"rh1", "rh2"} :
            HandleRequest(n, h)
    \/ \E n \in {"textDocument/didChange", "textDocument/hover"} :
            HandleNotification(n, "nh1")
    \/ \E n \in RequestNames, p \in RequestPayloads : SendRequest("/a", n, p)
    \/ \E n \in NotificationNames, p \in NotificationPayloads :
            SendNotification("/a", n, p)
    \/ \E n \in EventNames, p \in NotifyPayloads : Notify(n, p)
    \/ Activate

Spec == Init /\ [][Next]_vars

\* The activated plugin with two documents: the editor's buffer events and
\* document notifications, and the throttle window.
NextSync ==
    \/ Activate
    \/ \E p \in EventPaths, b \in BufferContents : BufferUpdate(BufferUpdateArgs(p, b))
    \/ \E p \in EventPaths, l \in ChangedLines :
            BufferUpdateIncremental(IncrementalArgs(p, 1, l))
    \/ \E u \in {UriA, UriB} :
            SendNotification("/a", "textDocument/didOpen", OpenPayload(u))
    \/ \E u \in {UriA, UriB} :
            SendNotification("/a", "textDocument/didChange",
                             ChangePayload(u, <<WholeChange("w")>>))
    \/ ThrottleWindowElapses

SpecSync == Init /\ [][NextSync]_vars

\* The activated plugin with one document: the events that touch the mirror.
NextMirror ==
    \/ Activate
    \/ \E p \in {"/a", ""}, b \in BufferContents : BufferUpdate(BufferUpdateArgs(p, b))
    \/ \E p \in {"/a", ""}, n \in 1..MaxLineNo, l \in ChangedLines :
            BufferUpdateIncremental(IncrementalArgs(p, n, l))
    \/ \E c \in {<<WholeChange("w"), WholeChange("v")>>, <<RangedChange("w")>>,
                 <<RangedChange("w"), WholeChange("v")>>, <<>>} :
            SendNotification("/a", "textDocument/didChange", ChangePayload(UriA, c))
    \/ SendNotification("/a", "textDocument/didChange",
                        ChangePayload(UriEsc, <<WholeChange("w")>>))
    \/ ThrottleWindowElapses

SpecMirror == Init /\ [][NextMirror]_vars

----------------------------------------------------------------------------
(* Claims about the dispatch tables. *)

\* The target most recently registered for (kind, name) by subscribe,
\* handleRequest or handleNotification; Undefined if there was none.
MostRecent(kind, name) ==
    LET hits == SelectSeq(regLog, LAMBDA r : r.kind = kind /\ r.name = name)
    IN  IF hits = <<>> THEN Undefined ELSE hits[Len(hits)].target

RegisteredTargets(kind, name) ==
    {regLog[i].target : i \in {j \in DOMAIN regLog :
                                  regLog[j].kind = kind /\ regLog[j].name = name}}

\* C1: sendRequest under a name no handler was registered for returns a
\* promise rejected with "Not implemented": it does not throw, invokes no
\* handler and makes no host call.
C1_UnregisteredRequestRejected ==
    (last.op = "sendRequest" /\ MostRecent("request", last.name) = Undefined)
        => /\ last.outcome = Outcome("rejected", "none", "Not implemented")
           /\ last.invoked = <<>>
           /\ last.calls = <<>>

\* C2: sendRequest (sendNotification) invokes exactly once the handler most
\* recently registered under the name, with (name, args); sendRequest returns
\* that handler's result unchanged.
C2_LastRegisteredHandlerInvoked ==
    /\ (last.op = "sendRequest" /\ MostRecent("request", last.name) # Undefined)
        => LET h == MostRecent("request", last.name)
           IN  /\ last.invoked = <<Invocation(h, last.name, last.args)>>
               /\ last.outcome = Call(h, last.name, last.args).outcome
    /\ (last.op = "sendNotification" /\ MostRecent("notification", last.name) # Undefined)
        => last.invoked =
               <<Invocation(MostRecent("notification", last.name), last.name, last.args)>>

\* C2's case: a request sent under a name registered twice, with two handlers.
C2_Witness ==
    /\ last.op = "sendRequest"
    /\ Cardinality(RegisteredTargets("request", last.name)) >= 2
    /\ last.invoked # <<>>
    /\ last.outcome.kind = "promise"

\* C3: sendNotification never throws, whatever the name and the payload; under
\* a name no handler was registered for, no handler runs and no host call is made.
C3_SendNotificationNeverThrows ==
    last.op = "sendNotification"
        => /\ last.outcome.kind # "throw"
           /\ MostRecent("notification", last.name) = Undefined
                => (last.invoked = <<>> /\ last.calls = <<>>)

\* C4: notify delivers the payload exactly once to the sink most recently
\* subscribed under the name and to no other; with no sink subscribed it is a
\* no-op, and subscribing later delivers nothing.
C4_NotifyDeliversToCurrentSinkOnly ==
    /\ last.op \in {"notify", "activate"}
        => LET sink == MostRecent("subscribe", last.name)
           IN  /\ last.outcome.kind # "throw"
               /\ last.dispatched =
                      IF sink = Undefined THEN <<>>
                      ELSE <<[sink |-> sink, payload |-> last.args]>>
    /\ last.op = "subscribe" => last.dispatched = <<>>

----------------------------------------------------------------------------
(* Claims about the synchronisation with the host. *)

\* The document events of the window: the one that just elapsed, or the
\* current one.
WindowEvents == IF last.op = "window-elapsed" THEN last.args ELSE burst

EventsOf(events, ev, path) ==
    SelectSeq(events, LAMBDA e : e.ev = ev /\ e.path = path)

RECURSIVE CallsOf(_)
CallsOf(events) ==
    IF events = <<>> THEN <<>> ELSE Head(events).calls \o CallsOf(Tail(events))

CallCount(calls, op, path) ==
    Len(SelectSeq(calls, LAMBDA c : c.op = op /\ c.path = path))

IsPush(call) == call.op \in {"updateFile", "changeLineInFile"}

\* C5 as claimed: three whole-document didChange notifications for one
\* document within one throttle window make exactly one update call reach the
\* host for that window.
C5_ThreeChangesOneSync ==
    last.op = "window-elapsed"
        => \A p \in Paths :
              Len(EventsOf(last.args, "didChange", p)) = 3
                  => CallCount(CallsOf(last.args) \o last.calls, "updateFile", p) = 1

\* C5 as amended: every whole-document didChange makes one host.updateFile
\* call of its own, at once and outside the throttle, so k of them within one
\* window make k update calls reach the host.
C5_EachChangeOneDirectUpdate ==
    /\ \A i \in DOMAIN WindowEvents :
          WindowEvents[i].ev = "didChange"
              => WindowEvents[i].calls =
                     <<HostCall("updateFile", WindowEvents[i].path,
                                WindowEvents[i].text, 0, 0, "direct")>>
    /\ \A p \in Paths :
          Len(SelectSeq(CallsOf(WindowEvents),
                        LAMBDA c : c.op = "updateFile" /\ c.path = p /\ c.site = "direct"))
              = Len(EventsOf(WindowEvents, "didChange", p))

\* C5's case: a window that held three didChange notifications for one path.
C5_Witness ==
    /\ last.op = "window-elapsed"
    /\ \E p \in Paths :
          /\ Len(EventsOf(last.args, "didChange", p)) = 3
          /\ CallCount(CallsOf(last.args) \o last.calls, "updateFile", p) = 3

WholeDocChange(l) ==
    /\ l.op = "sendNotification"
    /\ l.name = "textDocument/didChange"
    /\ l.outcome = Outcome("void", "protocolChangeFile", "")
    /\ ~Has(l.args.contentChanges[1], "range")

BufferUpdatesOf(events) == SelectSeq(events, LAMBDA e : e.ev = "buffer-update")

\* C7: the buffer-update events of one throttle window make at most one
\* updateFile call, sent when the window ends with the path and joined text of
\* the last of them; the earlier ones are dropped.
C7_BurstCoalescedTrailing ==
    /\ \A i \in DOMAIN WindowEvents :
          WindowEvents[i].ev = "buffer-update"
              => CallCount(WindowEvents[i].calls, "updateFile", WindowEvents[i].path) = 0
    /\ last.op = "window-elapsed"
          => LET ups == BufferUpdatesOf(last.args)
             IN  last.calls =
                     IF ups = <<>> THEN <<>>
                     ELSE <<HostCall("updateFile", ups[Len(ups)].path,
                                     ups[Len(ups)].text, 0, 0, "throttled")>>

\* C7's case: a window with several buffer-update events, the first and last
\* of which differ, has elapsed.
C7_Witness ==
    /\ last.op = "window-elapsed"
    /\ LET ups == BufferUpdatesOf(last.args)
       IN  /\ Len(ups) >= 2
           /\ <<ups[1].path, ups[1].text>> # <<ups[Len(ups)].path, ups[Len(ups)].text>>
    /\ Len(last.calls) = 1

\* C8: across a run of activity for one path (buffer-update events, at most
\* one didOpen) the open call for that path is issued exactly once.
C8_OpenIssuedOnce ==
    \A i \in DOMAIN burst : \A j \in i..Len(burst) :
        LET run == SubSeq(burst, i, j)
            p == burst[i].path
        IN  (/\ \A k \in DOMAIN run :
                   run[k].path = p /\ run[k].ev \in {"buffer-update", "didOpen"}
             /\ Len(EventsOf(run, "didOpen", p)) <= 1)
                => CallCount(CallsOf(run), "openFile", p) = 1

\* C9 as claimed: every content push to the host (updateFile,
\* changeLineInFile) comes after an open call for the same path.
C9_PushPrecededByOpen ==
    [][\A i \in DOMAIN last'.calls :
          IsPush(last'.calls[i])
              => \/ last'.calls[i].path \in opened
                 \/ \E j \in 1..(i - 1) :
                       /\ last'.calls[j].op = "openFile"
                       /\ last'.calls[j].path = last'.calls[i].path]_vars

\* C9 as amended: the throttled updateFile of the buffer-update path comes
\* after an open call for the same path, which the handler makes before it
\* schedules the push; the handlers of buffer-update-incremental and
\* textDocument/didChange push without opening.
C9_ThrottledPushPrecededByOpen ==
    /\ pendingUpdate # <<>> => pendingUpdate[1].path \in opened
    /\ last.op = "window-elapsed"
          => \A i \in DOMAIN last.calls : last.calls[i].path \in opened
    /\ (last.op = "buffer-update" /\ last.calls # <<>>)
          => (Len(last.calls) = 1 /\ last.calls[1].op = "openFile")
    /\ (last.op = "buffer-update-incremental" \/ WholeDocChange(last))
          => \A i \in DOMAIN last.calls : last.calls[i].op # "openFile"

\* C9's case: a throttled push has been delivered.
C9_Witness ==
    /\ last.op = "window-elapsed"
    /\ last.calls # <<>>
    /\ last.calls[1].site = "throttled"

IncrementalStep(l) ==
    /\ l.op = "buffer-update-incremental"
    /\ l.args.eventContext.bufferFullPath # ""

\* C10 as claimed: an incremental update for line n replaces the mirror entry
\* at index n-1, leaves the other lines and the mirror's length unchanged, and
\* makes one changeLineInFile(path, n, line) call at once, outside the throttle.
C10_ExactlyOneLineReplaced ==
    [][IncrementalStep(last')
          => LET n == last'.args.lineNumber
             IN  /\ Len(lastBuffer') = Len(lastBuffer)
                 /\ n \in DOMAIN lastBuffer'
                 /\ lastBuffer'[n] = last'.args.bufferLine
                 /\ \A i \in DOMAIN lastBuffer \ {n} : lastBuffer'[i] = lastBuffer[i]
                 /\ last'.calls =
                        <<HostCall("changeLineInFile",
                                   last'.args.eventContext.bufferFullPath,
                                   last'.args.bufferLine, n, 0, "direct")>>
                 /\ pendingUpdate' = pendingUpdate]_vars

\* C10 as amended: the same, except that the mirror's length becomes the
\* larger of its length and n: a line number past the end lengthens the mirror,
\* the slots in between being empty.
C10_OneLineReplacedOrAppended ==
    [][IncrementalStep(last')
          => LET n == last'.args.lineNumber
             IN  /\ Len(lastBuffer') = IF n > Len(lastBuffer) THEN n ELSE Len(lastBuffer)
                 /\ lastBuffer'[n] = last'.args.bufferLine
                 /\ \A i \in DOMAIN lastBuffer \ {n} : lastBuffer'[i] = lastBuffer[i]
                 /\ \A i \in (Len(lastBuffer) + 1)..(n - 1) : lastBuffer'[i] = Undefined
                 /\ last'.calls =
                        <<HostCall("changeLineInFile",
                                   last'.args.eventContext.bufferFullPath,
                                   last'.args.bufferLine, n, 0, "direct")>>
                 /\ pendingUpdate' = pendingUpdate]_vars

\* C10's case: an incremental update of a line inside a mirror that holds
\* other lines, with a throttled push waiting.
C10_Witness ==
    /\ IncrementalStep(last)
    /\ last.args.lineNumber < Len(lastBuffer)
    /\ lastBuffer[last.args.lineNumber] = last.args.bufferLine
    /\ \E i \in DOMAIN lastBuffer : lastBuffer[i] \notin {last.args.bufferLine, Undefined}
    /\ pendingUpdate # <<>>

----------------------------------------------------------------------------
(* Claims about the buffer mirror and the host's text. *)

\* The lines a query on a path reads: getCompletions (lastBuffer[line - 1])
\* and getFormattingEdits (lastBuffer.length) read the one lastBuffer,
\* whatever the path of the query.
MirrorFor(path) == lastBuffer

MirrorEvent(l) ==
    /\ l.op \in {"buffer-update", "buffer-update-incremental"}
    /\ l.args.eventContext.bufferFullPath # ""

\* C11: the mirror is kept per document: a full or incremental update event
\* for one path leaves the lines a query on any other path reads as they were.
C11_MirrorPerDocument ==
    [][MirrorEvent(last')
          => \A q \in Paths \ {last'.args.eventContext.bufferFullPath} :
                 MirrorFor(q)' = MirrorFor(q)]_vars

\* host.updateFile(path, text) replaces the whole text the host holds for the
\* path: after the call the host's text of call.path is the text it carried.
HostTextAfter(call) == [path |-> call.path, text |-> call.text]

EditorEventsOnly(events) ==
    \A i \in DOMAIN events :
        events[i].ev \in {"buffer-update", "buffer-update-incremental"}

\* C12: the throttled full-update path and the immediate incremental path do
\* not race destructively: when a window of buffer-update and
\* buffer-update-incremental events has been handled and the pending
\* throttled push delivered, the text the host holds for the pushed document
\* is the latest content the editor reported, which is what the mirror holds.
C12_HostAgreesWithMirror ==
    (/\ last.op = "window-elapsed"
     /\ EditorEventsOnly(last.args)
     /\ last.calls # <<>>)
        => /\ pendingUpdate = <<>>
           /\ HostTextAfter(last.calls[Len(last.calls)]).text = Join(lastBuffer, EOL)

----------------------------------------------------------------------------
(* getCompletions. A line of the mirror is a sequence of one-character      *)
(* strings here, as is a completion entry's name.                           *)

MaxColumn == 7    \* largest cursor column of a completion query

LowerCase == {"a", "b", "c", "d", "e", "f", "g", "h", "i", "j", "k", "l", "m",
              "n", "o", "p", "q", "r", "s", "t", "u", "v", "w", "x", "y", "z"}
UpperCase == {"A", "B", "C", "D", "E", "F", "G", "H", "I", "J", "K", "L", "M",
              "N", "O", "P", "Q", "R", "S", "T", "U", "V", "W", "X", "Y", "Z"}

\* currentCharacter.match(/[_a-z]/i)
MatchesIdentifier(currentCharacter) ==
    currentCharacter \in LowerCase \cup UpperCase \cup {"_"}

\* typeScriptKindToCompletionKind: its own properties.
typeScriptKindToCompletionKind(kind) ==
    CASE kind = "let" -> "Variable"
      [] kind = "interface" -> "Interface"
      [] kind = "alias" -> "Reference"
      [] kind = "color" -> "Color"
      [] kind = "const" -> "Value"
      [] kind = "constructor" -> "Constructor"
      [] kind \in {"class", "type"} -> "Class"
      [] kind \in {"directory", "file", "script"} -> "File"
      [] kind \in {"var", "parameter"} -> "Variable"
      [] kind = "property" -> "Property"
      [] kind \in {"module", "external module name"} -> "Module"
      [] kind = "method" -> "Method"
      [] kind = "function" -> "Function"
      [] kind = "unit" -> "Unit"
      [] kind = "keyword" -> "Keyword"
      [] kind = "text" -> "Text"
      [] OTHER -> ObjectPrototype(kind)

\* A kind the table does not hold, or no kind at all, converts to null.
convertTypeScriptKindToCompletionItemKind(kind) ==
    IF kind # "" /\ kind # Undefined /\ typeScriptKindToCompletionKind(kind) # Undefined
    THEN typeScriptKindToCompletionKind(kind)
    ELSE "null"

\* array[index] for a zero-based index: undefined outside the array.
ArrayGet(array, index) ==
    IF index + 1 \in DOMAIN array
    THEN [defined |-> TRUE, value |-> array[index + 1]]
    ELSE [defined |-> FALSE, value |-> <<>>]

\* The while loop of getCompletions, from col down: threw is set when
\* currentLine or currentCharacter is undefined (currentLine[col] or
\* currentCharacter.match then raises a TypeError).
RECURSIVE ScanPrefix(_, _, _)
ScanPrefix(currentLine, col, currentPrefix) ==
    IF col < 0
    THEN [threw |-> FALSE, col |-> col, currentPrefix |-> currentPrefix]
    ELSE IF ~currentLine.defined \/ ~ArrayGet(currentLine.value, col).defined
    THEN [threw |-> TRUE, col |-> col, currentPrefix |-> currentPrefix]
    ELSE LET currentCharacter == ArrayGet(currentLine.value, col).value
         IN  IF ~MatchesIdentifier(currentCharacter)
             THEN [threw |-> FALSE, col |-> col, currentPrefix |-> currentPrefix]
             ELSE ScanPrefix(currentLine, col - 1,
                             <<currentCharacter>> \o currentPrefix)

\* A promise already resolved with a value.
Resolved(by, value) ==
    [kind |-> "resolved", by |-> by, reason |-> "", value |-> value]

CompletionContext(path, line, column) ==
    [line |-> line, bufferFullPath |-> path, column |-> column]

\* getCompletions up to the call on the host: how it ends and the call made.
getCompletions(textDocumentPosition) ==
    IF textDocumentPosition.column <= 1
    THEN [outcome |-> Resolved("getCompletions", [completions |-> <<>>]),
          calls |-> <<>>]
    ELSE LET currentLine == ArrayGet(lastBuffer, textDocumentPosition.line - 1)
             scan == ScanPrefix(currentLine, textDocumentPosition.column - 2, <<>>)
             basePos == scan.col
         IN  IF scan.threw
             THEN [outcome |-> Outcome("throw", "getCompletions", "TypeError"),
                   calls |-> <<>>]
             ELSE IF /\ Len(scan.currentPrefix) = 0
                     /\ ~(/\ ArrayGet(currentLine.value, basePos).defined
                          /\ ArrayGet(currentLine.value, basePos).value = ".")
             THEN [outcome |-> Resolved("getCompletions",
                                        [base |-> scan.currentPrefix,
                                         completions |-> <<>>]),
                   calls |-> <<>>]
             ELSE [outcome |-> Outcome("promise", "getCompletions", ""),
                   calls |-> <<HostCall("getCompletions",
                                        textDocumentPosition.bufferFullPath,
                                        scan.currentPrefix,
                                        textDocumentPosition.line,
                                        textDocumentPosition.column, "direct")>>]

\* v.name.indexOf(currentPrefix) === 0
StartsWithPrefix(name, currentPrefix) ==
    /\ Len(currentPrefix) <= Len(name)
    /\ SubSeq(name, 1, Len(currentPrefix)) = currentPrefix

CompletionItem(v) ==
    [label |-> v.name, kind |-> convertTypeScriptKindToCompletionItemKind(v.kind)]

\* The continuation of host.getCompletions(...).then: filter, then map.
CompletionsThen(currentPrefix, val) ==
    [base |-> currentPrefix,
     completions |->
         LET kept == SelectSeq(val, LAMBDA v : \/ StartsWithPrefix(v.name, currentPrefix)
                                               \/ Len(currentPrefix) = 0)
         IN  [i \in DOMAIN kept |-> CompletionItem(kept[i])]]

MaxInflight == 2  \* host requests awaiting their response at one time
MaxIssued == 3    \* host requests issued in one behaviour

\* A request to the host whose promise is pending: seq is its rank among the
\* requests issued, closure what its continuation captured.
Request(op, path, seq, closure) ==
    [op |-> op, path |-> path, seq |-> seq, closure |-> closure]

Remove(seq, i) == SubSeq(seq, 1, i - 1) \o SubSeq(seq, i + 1, Len(seq))

GetCompletions(textDocumentPosition) ==
    /\ pc = "active"
    /\ LET r == getCompletions(textDocumentPosition)
       IN  /\ r.calls # <<>> => (Len(inflight) < MaxInflight /\ Len(issued) < MaxIssued)
           /\ last' = Last("getCompletions", "", textDocumentPosition, r.outcome,
                           <<>>, r.calls, <<>>)
           /\ inflight' =
                  IF r.calls = <<>> THEN inflight
                  ELSE Append(inflight,
                              Request("getCompletions", r.calls[1].path, Len(issued) + 1,
                                      [currentPrefix |-> r.calls[1].text]))
           /\ issued' = IF r.calls = <<>> THEN issued
                        ELSE Append(issued, r.calls[1].path)
    /\ UNCHANGED <<subscriptions, requestHandler, notificationHandler, lastBuffer,
                   pendingUpdate, pc, regLog, opened, burst, published>>

\* The host answers the i-th pending request, a completions request, with val.
CompletionsResponse(i, val) ==
    /\ i \in DOMAIN inflight
    /\ inflight[i].op = "getCompletions"
    /\ last' = Last("getCompletions-response", "",
                    [request |-> inflight[i], val |-> val],
                    Resolved("getCompletions",
                             CompletionsThen(inflight[i].closure.currentPrefix, val)),
                    <<>>, <<>>, <<>>)
    /\ inflight' = Remove(inflight, i)
    /\ UNCHANGED <<subscriptions, requestHandler, notificationHandler, lastBuffer,
                   pendingUpdate, pc, regLog, opened, burst, published, issued>>

\* Lines of the mirror, as characters.
LineFooBa == <<"f", "o", "o", ".", "b", "a">>
LineMixed == <<"x", " ", "_", "B", "1">>
CompletionMirrors == {<<>>, <<LineFooBa>>, <<LineMixed, LineFooBa>>}

CompletionEntry(name, kind) == [name |-> name, kind |-> kind]
CompletionResponses ==
    {<<>>,
     <<CompletionEntry(<<"b", "a", "r">>, "method"),
       CompletionEntry(<<"f", "o", "o">>, "var"),
       CompletionEntry(<<"b", "a">>, "getter"),
       CompletionEntry(<<"B", "a", "z">>, "class")>>,
     <<CompletionEntry(<<"_", "B", "x">>, "constructor"),
       CompletionEntry(<<"b">>, "let")>>}

\* The activated plugin with a mirror already filled by buffer-update events.
InitCompletions ==
    /\ subscriptions = NoTable
    /\ requestHandler = handleRequest(NoTable, "textDocument/hover", "getQuickInfo")
    /\ notificationHandler =
           handleNotification(
               handleNotification(NoTable, "textDocument/didOpen", "protocolOpenFile"),
               "textDocument/didChange", "protocolChangeFile")
    /\ lastBuffer \in CompletionMirrors
    /\ pendingUpdate = <<>>
    /\ pc = "active"
    /\ last = Last("new", "", "", NoOutcome, <<>>, <<>>, <<>>)
    /\ regLog =
           <<Registration("notification", "textDocument/didOpen",
                          "protocolOpenFile", "activate"),
             Registration("notification", "textDocument/didChange",
                          "protocolChangeFile", "activate"),
             Registration("request", "textDocument/hover", "getQuickInfo",
                          "activate")>>
    /\ opened = IF lastBuffer = <<>> THEN {} ELSE {"/a"}
    /\ burst = <<>>
    /\ inflight = <<>>
    /\ published = [p \in Paths |-> NoHighlights]
    /\ issued = <<>>

NextCompletions ==
    \/ \E l \in 0..2, c \in 0..MaxColumn :
            GetCompletions(CompletionContext("/a", l, c))
    \/ \E i \in 1..MaxInflight, val \in CompletionResponses :
            CompletionsResponse(i, val)

SpecCompletions == InitCompletions /\ [][NextCompletions]_vars

----------------------------------------------------------------------------
(* Claims about getCompletions. *)

CompletionStep(l) == l.op = "getCompletions"

\* The character immediately before the cursor, if the mirror holds one.
CharBeforeCursor(ctx) ==
    LET currentLine == ArrayGet(lastBuffer, ctx.line - 1)
    IN  IF currentLine.defined THEN ArrayGet(currentLine.value, ctx.column - 2)
        ELSE [defined |-> FALSE, value |-> <<>>]

\* The identifier characters that end immediately before the cursor: the
\* longest run of them in the line, in the line's order.
MaximalRun(ctx) ==
    LET currentLine == ArrayGet(lastBuffer, ctx.line - 1)
        chars == IF currentLine.defined THEN currentLine.value ELSE <<>>
        before == ctx.column - 1
        runs == {k \in 0..before :
                    \A j \in (before - k + 1)..before :
                        j \in DOMAIN chars /\ MatchesIdentifier(chars[j])}
        longest == CHOOSE k \in runs : \A m \in runs : m <= k
    IN  SubSeq(chars, before - longest + 1, before)

NoUsefulContext(ctx) ==
    \/ ctx.column <= 1
    \/ /\ MaximalRun(ctx) = <<>>
       /\ ~(CharBeforeCursor(ctx).defined /\ CharBeforeCursor(ctx).value = ".")

IsEmptyCompletionList(outcome) ==
    /\ outcome.kind = "resolved"
    /\ outcome.value.completions = <<>>

\* C13: with column <= 1, or with no identifier character before the cursor
\* and no "." immediately before it, getCompletions returns a resolved empty
\* completion list, does not throw and calls the host not at all; in every
\* other case it makes exactly one getCompletions call on the host, at the
\* cursor's line and column.
C13_BackendOnlyWithContext ==
    CompletionStep(last)
        => IF NoUsefulContext(last.args)
           THEN IsEmptyCompletionList(last.outcome) /\ last.calls = <<>>
           ELSE /\ Len(last.calls) = 1
                /\ last.calls[1].op = "getCompletions"
                /\ last.calls[1].path = last.args.bufferFullPath
                /\ last.calls[1].line = last.args.line
                /\ last.calls[1].offset = last.args.column

\* The prefix a getCompletions call resolved: the one it handed to the host
\* or, without a host call, the base it returned.
ResolvedPrefix(l) ==
    IF l.calls # <<>> THEN l.calls[1].text ELSE l.outcome.value.base

\* C14: for every mirrored line and cursor column > 1 the prefix that
\* getCompletions resolves is the maximal run of identifier characters ending
\* immediately before the cursor, in the line's order; the completions
\* returned when the host answers are the host's entries whose name starts
\* with that prefix (all of them for an empty prefix), in the host's order,
\* each as {label, kind}.
C14_PrefixAndFilter ==
    /\ (/\ CompletionStep(last)
        /\ last.args.column > 1
        /\ ArrayGet(lastBuffer, last.args.line - 1).defined)
          => /\ last.outcome.kind # "throw"
             /\ ResolvedPrefix(last) = MaximalRun(last.args)
    /\ last.op = "getCompletions-response"
          => LET currentPrefix == last.args.request.closure.currentPrefix
                 kept == SelectSeq(last.args.val,
                                   LAMBDA v : StartsWithPrefix(v.name, currentPrefix))
             IN  /\ Len(last.outcome.value.completions) = Len(kept)
                 /\ \A i \in DOMAIN kept :
                       last.outcome.value.completions[i] =
                           [label |-> kept[i].name,
                            kind |-> convertTypeScriptKindToCompletionItemKind(
                                         kept[i].kind)]

----------------------------------------------------------------------------
(* Syntax highlights from the navigation tree. A node of the tree is a      *)
(* record holding the fields the host sent: text, kind, spans, childItems.  *)

\* kindToHighlightGroup[kind]: the object's own properties, then the members
\* it inherits from Object.prototype.
kindToHighlightGroup(kind) ==
    CASE kind \in {"let", "var"} -> "Variable"
      [] kind = "const" -> "Constant"
      [] kind = "alias" -> "Package"
      [] kind = "function" -> "Method"
      [] kind = "method" -> "Function"
      [] kind = "property" -> "Property"
      [] kind = "class" -> "Class"
      [] kind = "interface" -> "Interface"
      [] OTHER -> ObjectPrototype(kind)

\* obj.field: undefined when the object does not hold the field.
Property(obj, field) ==
    IF Has(obj, field) THEN [defined |-> TRUE, value |-> obj[field]]
    ELSE [defined |-> FALSE, value |-> Undefined]

Highlight(highlightKind, token) == [highlightKind |-> highlightKind, token |-> token]

\* spans.forEach(s => highlights.push({highlightKind, token: item.text}))
PushSpans(item, highlights) ==
    highlights \o
        [s \in DOMAIN item.spans |->
            Highlight(kindToHighlightGroup(Property(item, "kind").value),
                      Property(item, "text").value)]

\* A traversal that emits a node's children before the node's own entries.
RECURSIVE getHighlightsFromNavTree_ChildrenFirst(_, _)
RECURSIVE ForEachItem_ChildrenFirst(_, _, _)
getHighlightsFromNavTree_ChildrenFirst(navTree, highlights) ==
    IF ~navTree.defined
    THEN [threw |-> FALSE, highlights |-> highlights]
    ELSE ForEachItem_ChildrenFirst(navTree.value, 1, highlights)

ForEachItem_ChildrenFirst(items, i, highlights) ==
    IF i > Len(items)
    THEN [threw |-> FALSE, highlights |-> highlights]
    ELSE LET item == items[i]
         IN  IF ~Has(item, "spans")
             THEN [threw |-> TRUE, highlights |-> highlights]
             ELSE LET sub == IF Has(item, "childItems")
                             THEN getHighlightsFromNavTree_ChildrenFirst(
                                      Property(item, "childItems"), highlights)
                             ELSE [threw |-> FALSE, highlights |-> highlights]
                  IN  IF sub.threw THEN sub
                      ELSE ForEachItem_ChildrenFirst(items, i + 1,
                                                     PushSpans(item, sub.highlights))

\* getHighlightsFromNavTree(navTree, highlights): highlights is the array
\* after the call; threw is set when item.spans is undefined (spans.forEach
\* then raises a TypeError, which ends every enclosing forEach).
RECURSIVE getHighlightsFromNavTree(_, _)
RECURSIVE ForEachItem(_, _, _)
getHighlightsFromNavTree(navTree, highlights) ==
    IF ~navTree.defined
    THEN [threw |-> FALSE, highlights |-> highlights]
    ELSE ForEachItem(navTree.value, 1, highlights)

\* navTree.forEach(item => ...), from the i-th item on.
ForEachItem(items, i, highlights) ==
    IF i > Len(items)
    THEN [threw |-> FALSE, highlights |-> highlights]
    ELSE LET item == items[i]
         IN  IF ~Has(item, "spans")
             THEN [threw |-> TRUE, highlights |-> highlights]
             ELSE LET pushed == PushSpans(item, highlights)
                      sub == IF Has(item, "childItems")
                             THEN getHighlightsFromNavTree(
                                      Property(item, "childItems"), pushed)
                             ELSE [threw |-> FALSE, highlights |-> pushed]
                  IN  IF sub.threw THEN sub
                      ELSE ForEachItem(items, i + 1, sub.highlights)

\* The then callback of host.getNavigationTree(path), for the tree received:
\* the setHighlights call it makes, none if the traversal threw.
NavigationTreeThen(bufferFullPath, navTree) ==
    LET r == getHighlightsFromNavTree(Property(navTree, "childItems"), <<>>)
    IN  IF r.threw
        THEN [outcome |-> Outcome("rejected", "getHighlightsFromNavTree", "TypeError"),
              dispatched |-> <<>>]
        ELSE [outcome |-> Outcome("void", "setHighlights", ""),
              dispatched |-> <<[sink |-> "setHighlights", path |-> bufferFullPath,
                                language |-> "typescript",
                                highlights |-> r.highlights]>>]

EventContext(path) == [bufferFullPath |-> path]

\* host.getNavigationTree(args.bufferFullPath).then(...): the request goes out
\* after the handler's first host call; its continuation keeps args.
RequestNavigationTree(op, firstCall, args) ==
    /\ Len(inflight) < MaxInflight
    /\ Len(issued) < MaxIssued
    /\ last' = Last(op, "", args, NoOutcome, <<>>,
                    <<HostCall(firstCall, args.bufferFullPath, "", 0, 0, "direct"),
                      HostCall("getNavigationTree", args.bufferFullPath, "", 0, 0,
                               "direct")>>,
                    <<>>)
    /\ inflight' = Append(inflight,
                          Request("getNavigationTree", args.bufferFullPath,
                                  Len(issued) + 1, args))
    /\ issued' = Append(issued, args.bufferFullPath)

\* Oni.on("buffer-enter", ...)
BufferEnter(args) ==
    /\ pc = "active"
    /\ RequestNavigationTree("buffer-enter", "openFile", args)
    /\ opened' = opened \cup {args.bufferFullPath}
    /\ UNCHANGED <<subscriptions, requestHandler, notificationHandler, lastBuffer,
                   pendingUpdate, pc, regLog, burst, published>>

\* Oni.on("buffer-saved", ...)
BufferSaved(args) ==
    /\ pc = "active"
    /\ RequestNavigationTree("buffer-saved", "getErrorsAcrossProject", args)
    /\ UNCHANGED <<subscriptions, requestHandler, notificationHandler, lastBuffer,
                   pendingUpdate, pc, regLog, opened, burst, published>>

\* The host answers the i-th pending request, a navigation tree request.
NavigationTreeResponse(i, navTree) ==
    /\ i \in DOMAIN inflight
    /\ inflight[i].op = "getNavigationTree"
    /\ LET r == NavigationTreeThen(inflight[i].closure.bufferFullPath, navTree)
       IN  /\ last' = Last("getNavigationTree-response", "",
                           [request |-> inflight[i], navTree |-> navTree],
                           r.outcome, <<>>, <<>>, r.dispatched)
           /\ published' =
                  IF r.dispatched = <<>> THEN published
                  ELSE [published EXCEPT
                           ![r.dispatched[1].path] =
                               [from |-> inflight[i].seq,
                                entries |-> r.dispatched[1].highlights]]
    /\ inflight' = Remove(inflight, i)
    /\ UNCHANGED <<subscriptions, requestHandler, notificationHandler, lastBuffer,
                   pendingUpdate, pc, regLog, opened, burst, issued>>

\* Navigation trees. The root stands for the file; its childItems are the
\* file's top-level symbols.
Span == [start |-> 1, length |-> 1]
Leaf(text, kind, spans) == [text |-> text, kind |-> kind, spans |-> spans]
Node(text, kind, spans, childItems) ==
    [text |-> text, kind |-> kind, spans |-> spans, childItems |-> childItems]
Spanless(text, kind) == [text |-> text, kind |-> kind]

TreeClassMethod ==
    Node("a.ts", "module", <<Span>>,
         <<Node("C", "class", <<Span>>, <<Leaf("m", "method", <<Span>>)>>)>>)
TreeDeep ==
    Node("a.ts", "module", <<Span>>,
         <<Leaf("v", "var", <<Span, Span>>),
           Node("C", "class", <<Span>>,
                <<Leaf("constructor", "constructor", <<Span>>),
                  Node("m", "method", <<>>, <<Leaf("k", "const", <<Span>>)>>)>>),
           Node("f", "function", <<Span>>, <<>>)>>)
TreeNoChildren == Leaf("a.ts", "module", <<Span>>)
TreeEnum ==
    Node("a.ts", "module", <<Span>>,
         <<Leaf("E", "enum", <<Span>>), Leaf("i", "interface", <<Span>>)>>)
TreeSpanless ==
    Node("a.ts", "module", <<Span>>,
         <<Spanless("x", "let"), Leaf("C", "class", <<Span>>)>>)
TreeSpanlessChild ==
    Node("a.ts", "module", <<Span>>,
         <<Node("C", "class", <<Span>>, <<Spanless("m", "method")>>),
           Leaf("p", "property", <<Span>>)>>)

WellFormedTrees == {TreeClassMethod, TreeDeep, TreeNoChildren, TreeEnum}
SparseTrees == {TreeSpanless, TreeSpanlessChild}

\* One document: its buffer is entered and saved, the host answers.
NextHighlights ==
    \/ Activate
    \/ BufferEnter(EventContext("/a"))
    \/ BufferSaved(EventContext("/a"))
    \/ \E i \in 1..MaxInflight, t \in WellFormedTrees \cup SparseTrees :
            NavigationTreeResponse(i, t)

SpecHighlights == Init /\ [][NextHighlights]_vars

----------------------------------------------------------------------------
(* Claims about the highlights. *)

TreeResponse(l) == l.op = "getNavigationTree-response"

TreeKinds == {"module", "class", "method", "var", "constructor", "const",
              "function", "enum", "interface", "let", "property"}

\* kindToHighlightGroup[kind], for the kinds of the trees.
Lookup == [kind \in TreeKinds |-> kindToHighlightGroup(kind)]

\* The symbols handed to getHighlightsFromNavTree for a tree received.
TopLevel(navTree) == IF Has(navTree, "childItems") THEN navTree.childItems ELSE <<>>

ChildrenOf(node) == IF Has(node, "childItems") THEN node.childItems ELSE <<>>

RECURSIVE AllHaveSpans(_)
AllHaveSpans(nodes) ==
    \A i \in DOMAIN nodes :
        Has(nodes[i], "spans") /\ AllHaveSpans(ChildrenOf(nodes[i]))

RECURSIVE SpanCount(_)
SpanCount(nodes) ==
    IF nodes = <<>> THEN 0
    ELSE (IF Has(Head(nodes), "spans") THEN Len(Head(nodes).spans) ELSE 0)
         + SpanCount(ChildrenOf(Head(nodes))) + SpanCount(Tail(nodes))

\* The entries of a forest in pre-order: a node's own, one per span, then
\* those of its children, then those of the nodes after it. category maps a
\* node's kind to its highlightKind; a node without spans has no entry of
\* its own.
RECURSIVE PreOrder(_, _)
PreOrder(nodes, category) ==
    IF nodes = <<>> THEN <<>>
    ELSE LET node == Head(nodes)
             own == IF Has(node, "spans")
                    THEN [s \in DOMAIN node.spans |->
                             Highlight(category[node.kind], node.text)]
                    ELSE <<>>
         IN  own \o PreOrder(ChildrenOf(node), category) \o PreOrder(Tail(nodes), category)

\* C15: getHighlightsFromNavTree is a total pre-order traversal: for a tree
\* whose nodes all carry spans the highlights published are one entry
\* {highlightKind: lookup(kind), token: text} per span of every node, a
\* node's entries before its children's and children in array order, so
\* their number is the sum of the span counts; a class with one method
\* child, one span each, gives two entries, the class's first.
C15_PreOrderTraversal ==
    (TreeResponse(last) /\ AllHaveSpans(TopLevel(last.args.navTree)))
        => /\ Len(last.dispatched) = 1
           /\ last.dispatched[1].highlights =
                  PreOrder(TopLevel(last.args.navTree), Lookup)
           /\ Len(last.dispatched[1].highlights) = SpanCount(TopLevel(last.args.navTree))
           /\ last.args.navTree = TreeClassMethod
                => last.dispatched[1].highlights =
                       <<Highlight(kindToHighlightGroup("class"), "C"),
                         Highlight(kindToHighlightGroup("method"), "m")>>

\* C15's case: a tree three levels deep, with a node of two spans, a node of
\* none and several children, has been flattened and published.
C15_Witness ==
    /\ TreeResponse(last)
    /\ last.args.navTree = TreeDeep
    /\ Len(last.dispatched) = 1
    /\ Len(last.dispatched[1].highlights) = 6
    /\ last.dispatched[1].highlights[1].token = "v"
    /\ last.dispatched[1].highlights[6].token = "f"

\* The category kindToHighlightGroup maps a kind to; undefined if it maps
\* the kind to none.
MappedCategory ==
    [kind \in TreeKinds |->
        IF kind \in {"let", "const", "var", "alias", "function", "method",
                     "property", "class", "interface"}
        THEN kindToHighlightGroup(kind) ELSE Undefined]

\* C16: sparse tree data does not fail the traversal: a node without spans
\* contributes no entry, a node without childItems ends its branch, a node
\* whose kind has no mapped category gives entries with highlightKind
\* undefined, and the other nodes of the tree are visited and their entries
\* published all the same.
C16_SparseTreeTolerated ==
    TreeResponse(last)
        => /\ last.outcome.kind # "rejected"
           /\ Len(last.dispatched) = 1
           /\ last.dispatched[1].highlights =
                  PreOrder(TopLevel(last.args.navTree), MappedCategory)

----------------------------------------------------------------------------
(* Two documents: navigation tree requests in flight together. *)

NextOrdering ==
    \/ Activate
    \/ \E p \in Paths : BufferEnter(EventContext(p))
    \/ \E p \in Paths : BufferSaved(EventContext(p))
    \/ \E i \in 1..MaxInflight, t \in {TreeClassMethod, TreeEnum} :
            NavigationTreeResponse(i, t)

SpecOrdering == Init /\ [][NextOrdering]_vars

\* The rank of the request issued last for a path; 0 if none was issued.
LatestIssued(path) ==
    LET ranks == {k \in DOMAIN issued : issued[k] = path}
    IN  IF ranks = {} THEN 0 ELSE CHOOSE k \in ranks : \A m \in ranks : m <= k

InFlightFor(path) ==
    \E i \in DOMAIN inflight :
        inflight[i].op = "getNavigationTree" /\ inflight[i].path = path

\* C20: no request is cancelled: the response to every navigation tree
\* request issued by buffer-enter or buffer-saved publishes highlights exactly
\* once, for the path the request was made for; and once the responses to
\* all requests for a path have arrived, in whatever order, the highlights
\* left published for the path are those of the request issued last.
C20_LaterRequestWins ==
    /\ TreeResponse(last)
          => /\ Len(last.dispatched) = 1
             /\ last.dispatched[1].path = last.args.request.path
             /\ published[last.args.request.path].from = last.args.request.seq
    /\ \A p \in Paths :
          (LatestIssued(p) # 0 /\ ~InFlightFor(p))
              => published[p].from = LatestIssued(p)

----------------------------------------------------------------------------
(* Diagnostics from the host. *)

MaxCoord == 3     \* largest line and offset of a diagnostic the host sends

\* types.Position.create(line, character), types.Range.create(start, end)
Position(line, character) == [line |-> line, character |-> character]
Range(start, end) == [start |-> start, end |-> end]

Diagnostic(text, start, end) == [text |-> text, start |-> start, end |-> end]
Location(line, offset) == [line |-> line, offset |-> offset]

SetErrors(key, fileName, errors) ==
    [sink |-> "setErrors", key |-> key, fileName |-> fileName, errors |-> errors]

\* A handler that passes the host's lines through as they are.
semanticDiag_KeepsLines(diagnostics) ==
    LET fileName == diagnostics.file
        diags == IF Has(diagnostics, "diagnostics") THEN diagnostics.diagnostics
                 ELSE <<>>
        errors == [i \in DOMAIN diags |->
                      [type |-> "null", message |-> diags[i].text,
                       range |-> Range(Position(diags[i].start.line,
                                                diags[i].start.offset),
                                       Position(diags[i].end.line,
                                                diags[i].end.offset)),
                       severity |-> 1]]
    IN  <<SetErrors("typescript-compiler", fileName, errors)>>

\* host.on("semanticDiag", ...): the Oni.diagnostics.setErrors call it makes.
semanticDiag(diagnostics) ==
    LET fileName == diagnostics.file
        diags == IF Has(diagnostics, "diagnostics") THEN diagnostics.diagnostics
                 ELSE <<>>
        errors == [i \in DOMAIN diags |->
                      [type |-> "null", message |-> diags[i].text,
                       range |-> Range(Position(diags[i].start.line - 1,
                                                diags[i].start.offset),
                                       Position(diags[i].end.line - 1,
                                                diags[i].end.offset)),
                       severity |-> 1]]
    IN  <<SetErrors("typescript-compiler", fileName, errors)>>

SemanticDiag(diagnostics) ==
    /\ pc = "active"
    /\ last' = Last("semanticDiag", "", diagnostics,
                    Outcome("void", "semanticDiag", ""), <<>>, <<>>,
                    semanticDiag(diagnostics))
    /\ UNCHANGED <<subscriptions, requestHandler, notificationHandler, lastBuffer,
                   pendingUpdate, pc, regLog, opened, burst, inflight, published,
                   issued>>

\* The events the host sends.
DiagnosticsEvent(file, diagnostics) == [diagnostics |-> diagnostics, file |-> file]
EventWithoutList(file) == [file |-> file]

DiagLine5 == Diagnostic("late", Location(5, 2), Location(5, 4))

Diagnostics ==
    {Diagnostic("e", Location(sl, so), Location(el, eo)) :
        sl \in 1..MaxCoord, so \in 1..MaxCoord, el \in {MaxCoord}, eo \in 1..MaxCoord}

NextDiag ==
    \/ Activate
    \/ \E f \in Paths : SemanticDiag(EventWithoutList(f))
    \/ \E f \in Paths : SemanticDiag(DiagnosticsEvent(f, <<>>))
    \/ \E f \in Paths, d \in Diagnostics : SemanticDiag(DiagnosticsEvent(f, <<d>>))
    \/ \E f \in Paths, d \in Diagnostics :
            SemanticDiag(DiagnosticsEvent(f, <<d, DiagLine5>>))
    \/ \E l \in 0..MaxCoord, c \in 0..MaxCoord :
            SendRequest("/a", "textDocument/hover", HoverPayload(UriA, l, c))

SpecDiag == Init /\ [][NextDiag]_vars

----------------------------------------------------------------------------
(* Claims about the diagnostics and the positions. *)

DiagStep(l) == l.op = "semanticDiag"

DiagsOf(event) == IF Has(event, "diagnostics") THEN event.diagnostics ELSE <<>>

\* C17: every semanticDiag event makes exactly one setErrors call, under
\* "typescript-compiler" and for the event's file, with one diagnostic per
\* diagnostic of the host in the same order: range lines are the host's
\* lines minus 1, offsets are passed through, severity is 1; an event
\* without a diagnostics list publishes the empty list.
C17_DiagnosticsPublished ==
    DiagStep(last)
        => /\ Len(last.dispatched) = 1
           /\ last.dispatched[1].sink = "setErrors"
           /\ last.dispatched[1].key = "typescript-compiler"
           /\ last.dispatched[1].fileName = last.args.file
           /\ LET diags == DiagsOf(last.args)
                  errors == last.dispatched[1].errors
              IN  /\ Len(errors) = Len(diags)
                  /\ \A i \in DOMAIN diags :
                        /\ errors[i].message = diags[i].text
                        /\ errors[i].range.start.line = diags[i].start.line - 1
                        /\ errors[i].range.start.character = diags[i].start.offset
                        /\ errors[i].range.end.line = diags[i].end.line - 1
                        /\ errors[i].range.end.character = diags[i].end.offset
                        /\ errors[i].severity = 1

\* C17's case: an event with two diagnostics, the second starting on line 5,
\* has been published, the second with start line 4.
C17_Witness ==
    /\ DiagStep(last)
    /\ Len(DiagsOf(last.args)) = 2
    /\ last.args.diagnostics[2].start.line = 5
    /\ Len(last.dispatched) = 1
    /\ Len(last.dispatched[1].errors) = 2
    /\ last.dispatched[1].errors[2].range.start.line = 4
    /\ last.dispatched[1].errors[1].range.start.line
           # last.dispatched[1].errors[1].range.end.line

\* The host position a hover request at an editor position asks for.
HoverPosition(position) ==
    LET call == getQuickInfo("textDocument/hover",
                             HoverPayload(UriA, position.line, position.character)
                            ).calls[1]
    IN  Location(call.line, call.offset)

\* C18: the conversions round-trip: a host (line, offset), line and offset
\* >= 1, converted to an editor position as the diagnostics path does and
\* back to a host position as the hover path does, is the original pair.
C18_PositionRoundTrip ==
    DiagStep(last)
        => \A i \in DOMAIN DiagsOf(last.args) :
              /\ HoverPosition(last.dispatched[1].errors[i].range.start)
                     = last.args.diagnostics[i].start
              /\ HoverPosition(last.dispatched[1].errors[i].range.end)
                     = last.args.diagnostics[i].end

----------------------------------------------------------------------------
(* Claims about textDocument/didChange. *)

\* A didChange notification that reached protocolChangeFile with a list of
\* changes that has a first entry.
DidChangeStep(l) ==
    /\ l.op = "sendNotification"
    /\ l.name = "textDocument/didChange"
    /\ l.invoked # <<>>
    /\ l.invoked[1].handler = "protocolChangeFile"
    /\ Has(l.args, "contentChanges")
    /\ l.args.contentChanges # <<>>

\* The path a document URI of the model stands for.
DecodedPath(uri) ==
    CASE uri = UriA -> "/a"
      [] uri = UriB -> "/b"
      [] uri = UriEsc -> "/a b"

\* C19: of a didChange notification's contentChanges only the first entry
\* counts: without a range it makes exactly one updateFile call, with its
\* text, for the decoded path; with a range the notification is accepted
\* without error and makes no host call; the mirror is untouched and the
\* later entries make no host call.
C19_OnlyFirstChangeHonoured ==
    [][DidChangeStep(last')
          => LET first == last'.args.contentChanges[1]
             IN  /\ last'.outcome.kind # "throw"
                 /\ last'.calls =
                        IF Has(first, "range") THEN <<>>
                        ELSE <<HostCall("updateFile",
                                        DecodedPath(last'.args.textDocument.uri),
                                        first.text, 0, 0, "direct")>>
                 /\ lastBuffer' = lastBuffer
                 /\ pendingUpdate' = pendingUpdate]_vars

\* C19's case: a didChange whose first entry carries a range and whose second
\* is a whole-document change has been handled, the mirror holding lines.
C19_Witness ==
    /\ DidChangeStep(last)
    /\ Len(last.args.contentChanges) = 2
    /\ Has(last.args.contentChanges[1], "range")
    /\ ~Has(last.args.contentChanges[2], "range")
    /\ last.calls = <<>>
    /\ lastBuffer # <<>>

====
